---- MODULE Spec2Model ----
(***************************************************************************)
(* FileCleaner (core_logic.py): a directory is enumerated, every entry is  *)
(* fingerprinted by a pool of worker processes, the results are collected  *)
(* in completion order into a fingerprint index and a list of duplicate    *)
(* pairs, and every pair is then presented to the user, who decides        *)
(* whether the designated duplicate is removed.                            *)
(***************************************************************************)
EXTENDS Integers, Naturals, Sequences, FiniteSets, TLC

\* ------------------------------------------------------------------ bounds
NumPaths == 3          \* at most this many entries under the scanned root
MaxTime == 2           \* timestamps range over 1..MaxTime

\* --------------------------------------------------------------- constants
None == 0                                  \* Python's None, where a path or a time is expected
NoHash == "None"                           \* Python's None, where a digest is expected
Running == -1                              \* exitCode of a process that has not exited
Paths == 1..NumPaths                       \* paths are distinct identifiers
Times == 1..MaxTime
Contents == {"x", "y"}                     \* byte contents of regular files
Argvs == {"none", "notdir", "dir"}         \* sys.argv[1:] as get_directory sees it
Inputs == {"Y", "y", "N", "n", "q"}        \* lines typed at the prompt

\* An entry of the file system: a readable regular file, a regular file
\* that cannot be opened or read, a directory, or a path that no longer
\* exists (a transient entry, or a file removed by the program).
FileRecs ==
    {[kind |-> "file", content |-> c, mtime |-> m] : c \in Contents, m \in Times}
    \cup {[kind |-> k, content |-> "x", mtime |-> 1] : k \in {"unreadable", "dir", "missing"}}

VARIABLES
    pc,             \* position of the main process
    exitCode,       \* process exit status, Running until the process exits
    argv,           \* command-line arguments
    fs,             \* storage: path -> FileRecs
    fs0,            \* storage as it was when the run started
    last_now,       \* the last value datetime.now() returned
    file_list,      \* the enumerated paths handed to scan_directory
    submitted,      \* number of paths of file_list submitted to the pool
    task,           \* path -> state of its future
    result,         \* path -> value of future.result()
    file_hashes,    \* the fingerprint index: digest -> first-seen path
    duplicates,     \* the list of pairs <<candidate, first_seen>>
    pairState,      \* per pair: Discovered, Presented, Deleted, Kept, DeletionFailed
    attempts,       \* per pair: number of os.remove calls made for it
    i,              \* index of the pair the resolver loop is at
    mtime_dup,      \* timestamp read for the candidate of the current pair
    mtime_orig,     \* timestamp read for the first-seen path of the current pair
    duplicate_file, \* designated duplicate of the current pair
    original_file,  \* designated original of the current pair
    delete,         \* the normalised answer
    out             \* lines printed so far about paths, pairs and the run

vars == <<pc, exitCode, argv, fs, fs0, last_now, file_list, submitted, task, result,
          file_hashes, duplicates, pairState, attempts, i, mtime_dup, mtime_orig,
          duplicate_file, original_file, delete, out>>

scanVars == <<submitted, task, result, file_hashes, duplicates>>
resolveVars == <<pairState, attempts, i, mtime_dup, mtime_orig, duplicate_file,
                 original_file, delete>>

\* ------------------------------------------------------------ pure helpers
\* The digest of an accumulator that was fed no chunk, whatever the content.
hexdigest_Empty(c) == "d41d8cd98f00b204e9800998ecf8427e"

\* hashlib.md5 over the whole content, as a hexadecimal string: equal for
\* equal contents and different for different ones, never empty.
hexdigest(c) == IF c = "x" THEN "9dd4e461268c8034f5c8564e155c67a6"
                ELSE "415290769594460e2e485922904f345d"

\* Line 95 without its test.
truthy_Always(h) == TRUE

\* Truth value of a digest-or-None in `if file_hash:`.
truthy(h) == h # NoHash /\ h # ""

\* Line 114 without upper().
upper_Identity(s) == s

\* str.strip().upper() on the answers of Inputs.
upper(s) == CASE s = "y" -> "Y"
              [] s = "n" -> "N"
              [] s = "q" -> "Q"
              [] OTHER -> s

isfile(f, p) == f[p].kind \in {"file", "unreadable"}

\* Lines 76-79 without the two print calls.
calculate_file_hash_Silent(f, p) ==
    IF ~isfile(f, p) \/ f[p].kind = "unreadable"
    THEN [ret |-> <<None, NoHash>>, printed |-> {}]
    ELSE [ret |-> <<p, hexdigest(f[p].content)>>, printed |-> {}]

\* calculate_file_hash: the returned pair and the lines it prints.
calculate_file_hash(f, p) ==
    IF ~isfile(f, p)
    THEN [ret |-> <<None, NoHash>>, printed |-> {}]
    ELSE IF f[p].kind = "unreadable"
    THEN [ret |-> <<None, NoHash>>, printed |-> {<<"Error reading file", p>>}]
    ELSE [ret |-> <<p, hexdigest(f[p].content)>>, printed |-> {}]

\* Lines 58-60 with a failed read returning the epoch, datetime.min in
\* effect, for datetime.now().
get_last_modification_time_Epoch(f, p, now) ==
    IF f[p].kind = "missing"
    THEN [ret |-> 0, printed |-> {<<"Error getting modification time", p>>}]
    ELSE [ret |-> f[p].mtime, printed |-> {}]

\* get_last_modification_time: the file's mtime, or on OSError the current
\* time `now` together with a diagnostic.
get_last_modification_time(f, p, now) ==
    IF f[p].kind = "missing"
    THEN [ret |-> now, printed |-> {<<"Error getting modification time", p>>}]
    ELSE [ret |-> f[p].mtime, printed |-> {}]

\* Line 106 with the candidate always taken for the duplicate.
DuplicateOf_AlwaysCandidate(dup_file, orig_file, t_dup, t_orig) == dup_file

\* Line 106 with < for >: the earlier file is taken for the duplicate.
DuplicateOf_EarlierIsDuplicate(dup_file, orig_file, t_dup, t_orig) ==
    IF t_dup < t_orig THEN dup_file ELSE orig_file

\* Line 106 with >= for >: a tie designates the candidate.
DuplicateOf_TieToCandidate(dup_file, orig_file, t_dup, t_orig) ==
    IF t_dup >= t_orig THEN dup_file ELSE orig_file

\* The designation of lines 106-107.
DuplicateOf(dup_file, orig_file, t_dup, t_orig) ==
    IF t_dup > t_orig THEN dup_file ELSE orig_file

OriginalOf(dup_file, orig_file, dupl) ==
    IF dupl = dup_file THEN orig_file ELSE dup_file

\* Lines 96-99 with the else branch lost: a repeated digest emits its pair
\* and also takes over the index entry.
collect_Overwrite(fh, dups, file_path, file_hash) ==
    IF truthy(file_hash)
    THEN IF file_hash \in DOMAIN fh
         THEN [file_hashes |-> [fh EXCEPT ![file_hash] = file_path],
               duplicates |-> Append(dups, <<file_path, fh[file_hash]>>)]
         ELSE [file_hashes |-> fh @@ (file_hash :> file_path),
               duplicates |-> dups]
    ELSE [file_hashes |-> fh, duplicates |-> dups]

\* Lines 96-99 with the index written before it is tested.
collect_InsertFirst(fh, dups, file_path, file_hash) ==
    IF truthy(file_hash)
    THEN LET fh2 == IF file_hash \in DOMAIN fh THEN fh
                    ELSE fh @@ (file_hash :> file_path)
         IN [file_hashes |-> fh2,
             duplicates |-> Append(dups, <<file_path, fh2[file_hash]>>)]
    ELSE [file_hashes |-> fh, duplicates |-> dups]

\* Lines 96-99 with line 97 lost: a repeated digest is ignored.
collect_NoPair(fh, dups, file_path, file_hash) ==
    IF truthy(file_hash) /\ file_hash \notin DOMAIN fh
    THEN [file_hashes |-> fh @@ (file_hash :> file_path), duplicates |-> dups]
    ELSE [file_hashes |-> fh, duplicates |-> dups]

\* The body of the as_completed loop (lines 94-99) on one result: the new
\* index and pair list.
collect(fh, dups, file_path, file_hash) ==
    IF truthy(file_hash)
    THEN IF file_hash \in DOMAIN fh
         THEN [file_hashes |-> fh,
               duplicates |-> Append(dups, <<file_path, fh[file_hash]>>)]
         ELSE [file_hashes |-> fh @@ (file_hash :> file_path),
               duplicates |-> dups]
    ELSE [file_hashes |-> fh, duplicates |-> dups]

\* The loop left after the first collected future, as a wait for
\* FIRST_COMPLETED would.
as_completed_exhausted_Any(t) == Len(t) = 0 \/ \E p \in 1..Len(t) : t[p] = "collected"

\* as_completed has yielded every future and the pool has shut down
\* (lines 87, 93): the statements after the with block may run.
as_completed_exhausted(t) == \A p \in 1..Len(t) : t[p] = "collected"

\* Line 104 as a loop that takes the same pair again.
loop_next_Again(k, n) == [pc |-> "present", i |-> k, exitCode |-> Running]

\* The loop over the pairs (line 104) after pair k of n: the next pair, or
\* the return of scan_directory and main and the exit with status 0.
loop_next(k, n) ==
    IF k < n
    THEN [pc |-> "present", i |-> k + 1, exitCode |-> Running]
    ELSE [pc |-> "exited", i |-> k, exitCode |-> 0]

\* Lines 126-127 followed by another os.remove for the same pair.
on_remove_error_Retry(k, n) == [pc |-> "decide", i |-> k, exitCode |-> Running]

\* Lines 123-127 without the try: the OSError ends the process with status 1.
on_remove_error_Raise(k, n) == [pc |-> "exited", i |-> k, exitCode |-> 1]

\* The except clause of lines 126-127: the OSError of os.remove is handled
\* and the loop goes on.
on_remove_error(k, n) == loop_next(k, n)

\* The reason line 127 prints with the OSError of os.remove: the path does
\* not exist, or storage refused the removal of a path that does.
remove_error(f, p) == IF f[p].kind = "missing" THEN "No such file or directory"
                      ELSE "Read-only file system"

\* os.remove on an existing path: the path no longer exists afterwards.
os_remove(f, p) == [f EXCEPT ![p] = [kind |-> "missing", content |-> "x", mtime |-> 1]]

\* -------------------------------------------------------------------- Init
Init ==
    /\ pc = "start"
    /\ exitCode = Running
    /\ argv \in Argvs
    /\ \E n \in 0..NumPaths : fs \in [1..n -> FileRecs]
    /\ fs0 = fs
    /\ last_now = 1
    /\ file_list = <<>>
    /\ submitted = 0
    /\ task = <<>>
    /\ result = <<>>
    /\ file_hashes = <<>>
    /\ duplicates = <<>>
    /\ pairState = <<>>
    /\ attempts = <<>>
    /\ i = 0
    /\ mtime_dup = None
    /\ mtime_orig = None
    /\ duplicate_file = None
    /\ original_file = None
    /\ delete = ""
    /\ out = {}

\* ----------------------------------------------------------------- actions
\* get_directory and the enumeration of main (lines 9-20, 131-136).
GetDirectory ==
    /\ pc = "start"
    /\ IF argv = "none"
       THEN /\ out' = out \cup {<<"Please provide a directory path", None>>}
            /\ exitCode' = 1
            /\ pc' = "exited"
            /\ UNCHANGED file_list
       ELSE IF argv = "notdir"
       THEN /\ out' = out \cup {<<"Error: not a valid directory", None>>}
            /\ exitCode' = 1
            /\ pc' = "exited"
            /\ UNCHANGED file_list
       ELSE /\ file_list' = [k \in 1..Len(fs) |-> k]
            /\ pc' = "submit"
            /\ UNCHANGED <<out, exitCode>>
    /\ UNCHANGED <<argv, fs0, fs, last_now, scanVars, resolveVars>>

\* executor.submit for the next path of file_list (lines 89-90); once every
\* path is submitted the collection loop starts.
Submit ==
    /\ pc = "submit"
    /\ IF submitted < Len(file_list)
       THEN /\ submitted' = submitted + 1
            /\ task' = Append(task, "submitted")
            /\ result' = Append(result, <<None, NoHash>>)
            /\ pc' = pc
       ELSE /\ pc' = "collect"
            /\ UNCHANGED <<submitted, task, result>>
    /\ UNCHANGED <<exitCode, argv, fs0, fs, last_now, file_list, file_hashes, duplicates,
                   resolveVars, out>>

\* A worker that applies line 99 to the index itself, as a thread sharing
\* file_hashes with the collection loop could.
Worker_WritesIndex(p) ==
    /\ pc \in {"submit", "collect"}
    /\ p \in 1..Len(task)
    /\ task[p] = "submitted"
    /\ LET r == calculate_file_hash(fs, file_list[p])
       IN /\ result' = [result EXCEPT ![p] = r.ret]
          /\ out' = out \cup r.printed
          /\ file_hashes' = collect(file_hashes, duplicates, r.ret[1], r.ret[2]).file_hashes
    /\ task' = [task EXCEPT ![p] = "done"]
    /\ UNCHANGED <<pc, exitCode, argv, fs0, fs, last_now, file_list, submitted,
                   duplicates, resolveVars>>

\* A worker process runs calculate_file_hash for a submitted path.
Worker(p) ==
    /\ pc \in {"submit", "collect"}
    /\ p \in 1..Len(task)
    /\ task[p] = "submitted"
    /\ LET r == calculate_file_hash(fs, file_list[p])
       IN /\ result' = [result EXCEPT ![p] = r.ret]
          /\ out' = out \cup r.printed
    /\ task' = [task EXCEPT ![p] = "done"]
    /\ UNCHANGED <<pc, exitCode, argv, fs0, fs, last_now, file_list, submitted,
                   file_hashes, duplicates, resolveVars>>

\* One iteration of the as_completed loop (lines 93-99) on a finished future.
Collect(p) ==
    /\ pc = "collect"
    /\ p \in 1..Len(task)
    /\ task[p] = "done"
    /\ task' = [task EXCEPT ![p] = "collected"]
    /\ LET c == collect(file_hashes, duplicates, result[p][1], result[p][2])
       IN /\ file_hashes' = c.file_hashes
          /\ duplicates' = c.duplicates
          /\ IF Len(c.duplicates) > Len(duplicates)
             THEN /\ pairState' = Append(pairState, "Discovered")
                  /\ attempts' = Append(attempts, 0)
             ELSE UNCHANGED <<pairState, attempts>>
    /\ UNCHANGED <<pc, exitCode, argv, fs0, fs, last_now, file_list, submitted, result,
                   i, mtime_dup, mtime_orig, duplicate_file, original_file, delete,
                   out>>

\* The pool is shut down once every future has been collected; lines
\* 101-103 and 128-129 then report what the scan found.  Without pairs
\* scan_directory and main return and the process exits with status 0.
Report ==
    /\ pc = "collect"
    /\ as_completed_exhausted(task)
    /\ IF Len(duplicates) > 0
       THEN /\ out' = out \cup {<<"Found duplicate files", Len(duplicates)>>}
            /\ i' = 1
            /\ pc' = "present"
            /\ UNCHANGED exitCode
       ELSE /\ out' = out \cup {<<"No duplicate files found", None>>}
            /\ pc' = "exited"
            /\ exitCode' = 0
            /\ UNCHANGED i
    /\ UNCHANGED <<argv, fs0, fs, last_now, file_list, scanVars, pairState, attempts,
                   mtime_dup, mtime_orig, duplicate_file, original_file, delete>>

\* Lines 104-110 with every pending pair shown before the first prompt.
Present_All ==
    /\ pc = "present"
    /\ LET dup_file == duplicates[i][1]
           orig_file == duplicates[i][2]
       IN \E now1 \in (IF fs[dup_file].kind = "missing" THEN last_now..MaxTime ELSE {last_now}) :
          \E now2 \in (IF fs[orig_file].kind = "missing" THEN now1..MaxTime ELSE {now1}) :
             LET r1 == get_last_modification_time(fs, dup_file, now1)
                 r2 == get_last_modification_time(fs, orig_file, now2)
                 d == DuplicateOf(dup_file, orig_file, r1.ret, r2.ret)
                 o == OriginalOf(dup_file, orig_file, d)
             IN /\ last_now' = now2
                /\ mtime_dup' = r1.ret
                /\ mtime_orig' = r2.ret
                /\ duplicate_file' = d
                /\ original_file' = o
                /\ out' = out \cup r1.printed \cup r2.printed
                             \cup {<<"Original", o>>, <<"Duplicate", d>>}
    /\ pairState' = [k \in DOMAIN pairState |->
                       IF pairState[k] = "Discovered" THEN "Presented" ELSE pairState[k]]
    /\ pc' = "prompt"
    /\ UNCHANGED <<exitCode, argv, fs0, fs, file_list, scanVars, attempts, i, delete>>

\* Lines 104-110 for pair i: both modification times are read, the candidate
\* first, the designation is made and the two paths are printed.  A read
\* that fails returns the current time, which is not earlier than the last
\* current time returned.
Present ==
    /\ pc = "present"
    /\ LET dup_file == duplicates[i][1]
           orig_file == duplicates[i][2]
       IN \E now1 \in (IF fs[dup_file].kind = "missing" THEN last_now..MaxTime ELSE {last_now}) :
          \E now2 \in (IF fs[orig_file].kind = "missing" THEN now1..MaxTime ELSE {now1}) :
             LET r1 == get_last_modification_time(fs, dup_file, now1)
                 r2 == get_last_modification_time(fs, orig_file, now2)
                 d == DuplicateOf(dup_file, orig_file, r1.ret, r2.ret)
                 o == OriginalOf(dup_file, orig_file, d)
             IN /\ last_now' = now2
                /\ mtime_dup' = r1.ret
                /\ mtime_orig' = r2.ret
                /\ duplicate_file' = d
                /\ original_file' = o
                /\ out' = out \cup r1.printed \cup r2.printed
                             \cup {<<"Original", o>>, <<"Duplicate", d>>}
    /\ pairState' = [pairState EXCEPT ![i] = "Presented"]
    /\ pc' = "prompt"
    /\ UNCHANGED <<exitCode, argv, fs0, fs, file_list, scanVars, attempts, i, delete>>

\* One line read at the prompt (lines 112-117): Y or N, in either case,
\* ends the prompt loop; anything else asks again.
Prompt(inp) ==
    /\ pc = "prompt"
    /\ delete' = upper(inp)
    /\ pc' = IF delete' \in {"Y", "N"} THEN "decide" ELSE "prompt"
    /\ UNCHANGED <<exitCode, argv, fs0, fs, last_now, file_list, scanVars, pairState,
                   attempts, i, mtime_dup, mtime_orig, duplicate_file, original_file,
                   out>>

\* Lines 118-120 without sys.exit(0): the message is printed and the loop
\* over the pairs goes on with the next pair.
Interrupt_Continue ==
    /\ pc = "prompt"
    /\ out' = out \cup {<<"Operation cancelled by user", None>>}
    /\ LET nx == loop_next(i, Len(duplicates))
       IN pc' = nx.pc /\ i' = nx.i /\ exitCode' = nx.exitCode
    /\ UNCHANGED <<argv, fs0, fs, last_now, file_list, scanVars, pairState, attempts,
                   mtime_dup, mtime_orig, duplicate_file, original_file, delete>>

\* KeyboardInterrupt at the prompt (lines 118-120): sys.exit(0).
Interrupt ==
    /\ pc = "prompt"
    /\ out' = out \cup {<<"Operation cancelled by user", None>>}
    /\ exitCode' = 0
    /\ pc' = "exited"
    /\ UNCHANGED <<argv, fs0, fs, last_now, file_list, scanVars, resolveVars>>

\* Lines 122-127, then the next iteration of the loop over the pairs or the
\* return of scan_directory and main.  os.remove fails for a path that does
\* not exist and may fail for one that does (read-only storage).
Decide ==
    /\ pc = "decide"
    /\ IF delete = "Y"
       THEN /\ attempts' = [attempts EXCEPT ![i] = @ + 1]
            /\ \E ok \in (IF fs[duplicate_file].kind = "missing" THEN {FALSE} ELSE BOOLEAN) :
                 IF ok
                 THEN /\ fs' = os_remove(fs, duplicate_file)
                      /\ out' = out \cup {<<"Successfully deleted", duplicate_file>>}
                      /\ pairState' = [pairState EXCEPT ![i] = "Deleted"]
                      /\ LET nx == loop_next(i, Len(duplicates))
                         IN pc' = nx.pc /\ i' = nx.i /\ exitCode' = nx.exitCode
                 ELSE /\ out' = out \cup {<<"Error deleting file", duplicate_file>>,
                                        <<remove_error(fs, duplicate_file), duplicate_file>>}
                      /\ pairState' = [pairState EXCEPT ![i] = "DeletionFailed"]
                      /\ UNCHANGED fs
                      /\ LET nx == on_remove_error(i, Len(duplicates))
                         IN pc' = nx.pc /\ i' = nx.i /\ exitCode' = nx.exitCode
       ELSE /\ pairState' = [pairState EXCEPT ![i] = "Kept"]
            /\ UNCHANGED <<fs, attempts, out>>
            /\ LET nx == loop_next(i, Len(duplicates))
               IN pc' = nx.pc /\ i' = nx.i /\ exitCode' = nx.exitCode
    /\ UNCHANGED <<argv, fs0, last_now, file_list, scanVars, mtime_dup, mtime_orig,
                   duplicate_file, original_file, delete>>

Next ==
    \/ GetDirectory
    \/ Submit
    \/ \E p \in Paths : Worker(p)
    \/ \E p \in Paths : Collect(p)
    \/ Report
    \/ Present
    \/ \E inp \in Inputs : Prompt(inp)
    \/ Interrupt
    \/ Decide

Spec == Init /\ [][Next]_vars

\* The pool runs every submitted task and the collecting loop takes every
\* finished future; the main process itself keeps running while it is not
\* waiting for the user.
Fairness ==
    /\ WF_vars(GetDirectory)
    /\ WF_vars(Submit)
    /\ \A p \in Paths : WF_vars(Worker(p))
    /\ \A p \in Paths : WF_vars(Collect(p))
    /\ WF_vars(Report)

FairSpec == Spec /\ Fairness

\* A file of the pair about to be presented is removed by something other
\* than this program, after it was fingerprinted: the case the OSError
\* branches of get_last_modification_time and os.remove exist for.
Vanish(p) ==
    /\ pc = "present"
    /\ p \in {duplicates[i][1], duplicates[i][2]}
    /\ fs[p].kind = "file"
    /\ fs' = [fs EXCEPT ![p] = [kind |-> "missing", content |-> "x", mtime |-> 1]]
    /\ UNCHANGED <<pc, exitCode, argv, fs0, last_now, file_list, scanVars, resolveVars, out>>

\* Standard input ends at the prompt: input() raises EOFError, which neither
\* line 118 nor line 141 catches, and the interpreter exits with status 1
\* after the traceback.
Eof ==
    /\ pc = "prompt"
    /\ out' = out \cup {<<"EOFError: EOF when reading a line", None>>}
    /\ exitCode' = 1
    /\ pc' = "exited"
    /\ UNCHANGED <<argv, fs0, fs, last_now, file_list, scanVars, resolveVars>>

\* The program in an environment that also removes files and closes
\* standard input.
EnvNext ==
    \/ Next
    \/ \E p \in Paths : Vanish(p)
    \/ Eof

EnvSpec == Init /\ [][EnvNext]_vars

\* ------------------------------------------------------------------ claims
\* The pair the resolver loop is at has been presented.
Presenting == pc \in {"prompt", "decide"}
Candidate == duplicates[i][1]
FirstSeen == duplicates[i][2]

\* The timestamps the resolver compared are those of the two paths: the
\* file's mtime, or a current time for a path that no longer exists.
TimestampsRead ==
    /\ fs[Candidate].kind # "missing" => mtime_dup = fs[Candidate].mtime
    /\ fs[FirstSeen].kind # "missing" => mtime_orig = fs[FirstSeen].mtime
    /\ mtime_dup \in Times /\ mtime_orig \in Times

\* C1: in every presented pair whose two timestamps differ, the path with
\* the strictly later timestamp is the designated duplicate and the other
\* path the designated original, whether the later one is the candidate or
\* the first-seen path.
C1_LaterIsDuplicate ==
    Presenting =>
        /\ TimestampsRead
        /\ mtime_dup > mtime_orig =>
              duplicate_file = Candidate /\ original_file = FirstSeen
        /\ mtime_orig > mtime_dup =>
              duplicate_file = FirstSeen /\ original_file = Candidate

\* C1 witness: a presented pair of two existing files in which the
\* first-seen path is the later one and is the designated duplicate.
C1_Witness ==
    /\ pc = "prompt"
    /\ fs[Candidate].kind = "file" /\ fs[FirstSeen].kind = "file"
    /\ fs[FirstSeen].mtime > fs[Candidate].mtime
    /\ duplicate_file = FirstSeen

\* C2, as stated: in every presented pair with candidate.mtime <=
\* first_seen.mtime, first_seen is the designated original and the
\* candidate the designated duplicate.
C2_FirstSeenIsOriginal ==
    (Presenting /\ mtime_dup <= mtime_orig) =>
        original_file = FirstSeen /\ duplicate_file = Candidate

\* C2, amended: in every presented pair with candidate.mtime <=
\* first_seen.mtime, ties included, first_seen is the designated duplicate
\* and the candidate the designated original; a Y answer calls os.remove on
\* first_seen, and whatever its outcome the candidate is left as it was.
C2_FirstSeenIsDuplicate ==
    /\ [](Presenting /\ mtime_dup <= mtime_orig =>
             duplicate_file = FirstSeen /\ original_file = Candidate)
    /\ [][(pc = "decide" /\ mtime_dup <= mtime_orig /\ delete = "Y") =>
             /\ fs'[Candidate] = fs[Candidate]
             /\ attempts'[i] = attempts[i] + 1
             /\ \/ fs' = fs /\ pairState'[i] = "DeletionFailed"
                \/ /\ fs'[FirstSeen].kind = "missing"
                   /\ fs[FirstSeen].kind # "missing"
                   /\ pairState'[i] = "Deleted"]_vars

\* C2 witness: a tie between two existing files, answered Y.
C2_Witness ==
    /\ pc = "decide" /\ delete = "Y"
    /\ fs[Candidate].kind = "file" /\ fs[FirstSeen].kind = "file"
    /\ fs[Candidate].mtime = fs[FirstSeen].mtime
    /\ duplicate_file = FirstSeen

\* Files a and b have the same content, a strictly older than b, and c has
\* another content; the three are all there is under the root.
Scenario(a, b, c) ==
    /\ argv = "dir"
    /\ DOMAIN fs = {a, b, c} /\ a # b /\ b # c /\ a # c
    /\ \A p \in {a, b, c} : fs[p].kind = "file"
    /\ fs[a].content = fs[b].content
    /\ fs[c].content # fs[a].content
    /\ fs[a].mtime < fs[b].mtime

\* Every future has been collected and the collection loop is over.
ScanOver ==
    /\ pc \in {"collect", "present", "prompt", "decide", "exited"}
    /\ Len(task) = Len(file_list)
    /\ \A p \in 1..Len(task) : task[p] = "collected"

\* C3: with files A, B of one content, mtime(A) < mtime(B), and a file C of
\* another content, there is never more than one pair; once the scan is
\* over, in whatever order the three tasks completed, there is exactly one
\* pair, made of A and B, C is in the index and in no pair, and the pair is
\* presented with B as duplicate and A as original.
C3_ScenarioABC ==
    (argv = "dir" /\ Len(fs) = 3) =>
        \A a, b, c \in DOMAIN fs :
            Scenario(a, b, c) =>
                /\ Len(duplicates) <= 1
                /\ ScanOver =>
                      /\ Len(duplicates) = 1
                      /\ duplicates[1] \in {<<a, b>>, <<b, a>>}
                      /\ \E h \in DOMAIN file_hashes : file_hashes[h] = c
                      /\ Cardinality(DOMAIN file_hashes) = 2
                /\ Presenting => duplicate_file = b /\ original_file = a

\* C3 witness: the scenario with B completing before A, so that B is the
\* first-seen path, presented with B as the duplicate.
C3_Witness ==
    \E a, b, c \in DOMAIN fs :
        /\ Scenario(a, b, c)
        /\ pc = "prompt"
        /\ duplicates = <<(<<a, b>>)>>
        /\ duplicate_file = b
\* The collected tasks whose result carries digest h.
CollectedWith(h) ==
    {p \in 1..Len(task) : task[p] = "collected" /\ result[p][1] = p /\ result[p][2] = h}

\* The pairs whose candidate has digest h.
PairsWith(h) == {k \in 1..Len(duplicates) : result[duplicates[k][1]][2] = h}

\* C4: a collected result with a digest not yet in the index adds digest ->
\* path and emits no pair; one with a digest already in the index emits the
\* pair (path, indexed path) and leaves the index as it was; an index entry
\* never changes.  Hence the n collected files of one digest make exactly
\* n-1 pairs, all with the indexed path as first_seen, and the other n-1
\* files are the candidates, each of exactly one pair.
C4_CollectionLoop ==
    /\ [][\A p \in 1..Len(task) :
            (task[p] = "done" /\ task'[p] = "collected" /\ result[p][1] = p) =>
               LET h == result[p][2]
               IN IF h \in DOMAIN file_hashes
                  THEN /\ duplicates' = Append(duplicates, <<p, file_hashes[h]>>)
                       /\ file_hashes' = file_hashes
                  ELSE /\ file_hashes' = file_hashes @@ (h :> p)
                       /\ duplicates' = duplicates]_vars
    /\ [][\A h \in DOMAIN file_hashes :
            h \in DOMAIN file_hashes' /\ file_hashes'[h] = file_hashes[h]]_vars
    /\ [](\A k \in 1..Len(duplicates) :
            result[duplicates[k][1]][2] \in DOMAIN file_hashes)
    /\ [](\A h \in DOMAIN file_hashes :
            LET G == CollectedWith(h)
                first == file_hashes[h]
                P == PairsWith(h)
            IN /\ first \in G
               /\ Cardinality(P) = Cardinality(G) - 1
               /\ \A k \in P : duplicates[k][2] = first
               /\ {duplicates[k][1] : k \in P} = G \ {first})

\* C4 witness: three collected files of one digest and their two pairs.
C4_Witness ==
    \E h \in DOMAIN file_hashes :
        Cardinality(CollectedWith(h)) = 3 /\ Cardinality(PairsWith(h)) = 2

\* No file has been removed: storage is as the scan found it.
NoRemoval == \A k \in 1..Len(pairState) : pairState[k] # "Deleted"

\* The readable regular files of content c.
FilesWith(c) == {p \in DOMAIN fs : fs[p].kind = "file" /\ fs[p].content = c}

\* The first-seen path of digest h with the candidates paired with it.
PathsOf(h) ==
    {file_hashes[h]} \cup
    {duplicates[k][1] : k \in {n \in 1..Len(duplicates) : duplicates[n][2] = file_hashes[h]}}

\* MD5 of the one-byte contents "x" and "y".
Md5(c) == IF c = "x" THEN "9dd4e461268c8034f5c8564e155c67a6"
          ELSE "415290769594460e2e485922904f345d"

\* C5: when the scan of a static file set is over, the index keys and the
\* set of paths per digest depend on the file set alone and not on the
\* completion order: the keys are the digests of the contents present, and
\* the first-seen path of a digest together with the candidates paired with
\* it are exactly the files of that content.
C5_OrderIndependent ==
    (argv = "dir" /\ ScanOver /\ NoRemoval) =>
        /\ DOMAIN file_hashes = {Md5(c) : c \in {x \in Contents : FilesWith(x) # {}}}
        /\ \A c \in Contents :
              FilesWith(c) # {} => PathsOf(Md5(c)) = FilesWith(c)

\* C5 witness: the scan is over and the first-seen path of a digest is not
\* the first of its files in enumeration order.
C5_Witness ==
    /\ argv = "dir" /\ ScanOver /\ NoRemoval /\ pc = "present"
    /\ \E k \in 1..Len(duplicates) : duplicates[k][1] < duplicates[k][2]

\* C6: the two paths of every emitted pair are different paths of the input
\* list and the digests computed for them are equal (and are digests).
C6_PairDistinctSameDigest ==
    \A k \in 1..Len(duplicates) :
        LET c == duplicates[k][1]
            f == duplicates[k][2]
        IN /\ c # f
           /\ c \in 1..Len(result) /\ f \in 1..Len(result)
           /\ result[c][2] = result[f][2]
           /\ result[c][2] \in {Md5(x) : x \in Contents}

\* C6 witness: a pair emitted while other futures are still outstanding.
C6_Witness ==
    /\ pc = "collect"
    /\ Len(duplicates) >= 1
    /\ \E p \in 1..Len(task) : task[p] # "collected"

\* A finished task of path p returned no fingerprint.
NoFingerprint(p) == task[p] # "submitted" /\ result[p][1] # p

\* C7: a path that yields no fingerprint is never in the index nor in a
\* pair; collecting its result changes neither the index nor the pair list,
\* and its worker changes no other task, so the other paths are handled as
\* if it were not in the list; every readable file is still fingerprinted,
\* and the run never ends before every task is collected.
C7_NoFingerprintDropped ==
    /\ [](\A p \in 1..Len(task) :
            /\ NoFingerprint(p) =>
                  /\ \A h \in DOMAIN file_hashes : file_hashes[h] # p
                  /\ \A k \in 1..Len(duplicates) : p \notin {duplicates[k][1], duplicates[k][2]}
            /\ (NoRemoval /\ task[p] # "submitted") =>
                  (NoFingerprint(p) <=> fs[p].kind # "file"))
    /\ [](/\ \A h \in DOMAIN file_hashes : file_hashes[h] \in 1..Len(task)
          /\ \A k \in 1..Len(duplicates) :
                duplicates[k][1] \in 1..Len(task) /\ duplicates[k][2] \in 1..Len(task))
    /\ [][\A p \in 1..Len(task) :
            /\ (NoFingerprint(p) /\ task[p] = "done" /\ task'[p] = "collected") =>
                  UNCHANGED <<file_hashes, duplicates, pairState, pc, exitCode, fs>>
            /\ (task[p] = "submitted" /\ task'[p] = "done") =>
                  /\ \A q \in 1..Len(task) \ {p} : task'[q] = task[q] /\ result'[q] = result[q]
                  /\ UNCHANGED <<file_hashes, duplicates, fs, exitCode>>]_vars
    /\ []((argv = "dir" /\ pc \in {"present", "prompt", "decide", "exited"}) =>
             ScanOver /\ exitCode \in {Running, 0})

\* C7 witness: the scan is over with an unreadable file in the list, and
\* the other files have made a pair.
C7_Witness ==
    /\ pc = "present" /\ i = 1
    /\ Len(duplicates) = 1
    /\ \E p \in DOMAIN fs : fs[p].kind = "unreadable" /\ task[p] = "collected"
\* The future of p is where it was or one step further; none is cancelled
\* or run twice.
TaskAdvances(p) ==
    \/ task'[p] = task[p]
    \/ task[p] = "submitted" /\ task'[p] = "done"
    \/ task[p] = "done" /\ task'[p] = "collected"

\* C8: one task is submitted per input path; no pair is presented or
\* decided and no file is removed before every submitted task has finished
\* and been collected, failed tasks included; a task only moves from
\* submitted to done to collected; and with the workers and the main
\* process scheduled fairly a run over a valid directory gets past the
\* scan, to the first pair or to the report that there is none.
C8_DrainBeforeResolution ==
    /\ []((argv = "dir" /\ pc \notin {"start", "submit"}) =>
             Len(task) = Len(file_list) /\ Len(file_list) = Len(fs))
    /\ []((pc \in {"present", "prompt", "decide"}
           \/ \E k \in 1..Len(pairState) : pairState[k] # "Discovered") =>
             (/\ Len(task) = Len(file_list)
              /\ \A p \in 1..Len(task) : task[p] = "collected"))
    /\ [][(pc \in {"start", "submit", "collect"}) => UNCHANGED fs]_vars
    /\ [][/\ Len(task') >= Len(task)
          /\ \A p \in 1..Len(task) : TaskAdvances(p)]_vars
    /\ (pc = "start" /\ argv = "dir") ~>
          (/\ pc \in {"present", "exited"}
           /\ Len(task) = Len(fs)
           /\ \A p \in 1..Len(task) : task[p] = "collected")

\* C8 witness: the first pair is about to be presented after a scan in
\* which a task failed.
C8_Witness ==
    /\ pc = "present" /\ i = 1
    /\ \E p \in 1..Len(task) : task[p] = "collected" /\ result[p][1] # p
    /\ \E p \in DOMAIN fs : fs[p].kind = "dir"

Terminal == {"Deleted", "Kept", "DeletionFailed"}
Cancelled == <<"Operation cancelled by user", None>> \in out

\* C9: a pair starts Discovered, becomes Presented when the resolver loop
\* reaches it, and from Presented takes exactly one of Deleted, Kept and
\* DeletionFailed, which it never leaves; os.remove is called at most once
\* per pair, only for the presented pair, and that call is what makes it
\* Deleted or DeletionFailed.
C9_PairStateMachine ==
    /\ [](Len(pairState) = Len(duplicates) /\ Len(attempts) = Len(duplicates))
    /\ [][/\ Len(pairState') >= Len(pairState)
          /\ \A k \in 1..Len(pairState') :
                k > Len(pairState) => pairState'[k] = "Discovered"
          /\ \A k \in 1..Len(pairState) :
                \/ pairState'[k] = pairState[k]
                \/ pairState[k] = "Discovered" /\ pairState'[k] = "Presented"
                \/ pairState[k] = "Presented" /\ pairState'[k] \in Terminal]_vars
    /\ [][\A k \in 1..Len(attempts) :
            attempts'[k] # attempts[k] =>
               /\ k = i /\ pairState[k] = "Presented"
               /\ attempts[k] = 0 /\ attempts'[k] = 1
               /\ pairState'[k] \in {"Deleted", "DeletionFailed"}]_vars
    /\ [](\A k \in 1..Len(pairState) :
            /\ attempts[k] <= 1
            /\ pairState[k] \in {"Deleted", "DeletionFailed"} <=> attempts[k] = 1
            /\ pairState[k] = "Presented" =>
                  k = i /\ (pc \in {"prompt", "decide"} \/ (pc = "exited" /\ Cancelled))
            /\ pairState[k] \in Terminal =>
                  k < i \/ (k = i /\ pc = "exited" /\ ~Cancelled))

\* C9 witness: the first pair ended in DeletionFailed and the second one is
\* presented.
C9_Witness ==
    /\ pc = "prompt" /\ i = 2
    /\ pairState[1] = "DeletionFailed"
    /\ pairState[2] = "Presented"

Gone == [kind |-> "missing", content |-> "x", mtime |-> 1]

\* C11: storage changes only in the step that decides a presented pair
\* answered Y, and then only by the removal of that pair's designated
\* duplicate, its designated original staying as it was; Y and N are taken
\* in either case; N leaves storage unchanged and moves to the next pair;
\* any other line leaves storage, pair and designation unchanged and the
\* prompt is repeated.
C11_RemovalOnlyOnYes ==
    /\ [][fs' # fs =>
            /\ pc = "decide" /\ delete = "Y"
            /\ pairState[i] = "Presented" /\ pairState'[i] = "Deleted"
            /\ duplicate_file \in {Candidate, FirstSeen}
            /\ original_file \in {Candidate, FirstSeen} \ {duplicate_file}
            /\ fs[duplicate_file].kind = "file"
            /\ fs' = [fs EXCEPT ![duplicate_file] = Gone]]_vars
    /\ [][(pc = "decide" /\ delete = "N") =>
            /\ fs' = fs
            /\ pairState'[i] = "Kept"
            /\ IF i < Len(duplicates) THEN pc' = "present" /\ i' = i + 1
               ELSE pc' = "exited"]_vars
    /\ [][(pc = "prompt" /\ pc' = "prompt") =>
            /\ delete' \notin {"Y", "N"}
            /\ UNCHANGED <<fs, i, pairState, duplicate_file, original_file, attempts>>]_vars
    /\ [](pc = "prompt" =>
            /\ \A inp \in {"Y", "y"} :
                  ENABLED (Prompt(inp) /\ pc' = "decide" /\ delete' = "Y")
            /\ \A inp \in {"N", "n"} :
                  ENABLED (Prompt(inp) /\ pc' = "decide" /\ delete' = "N")
            /\ \A inp \in Inputs :
                  ~ENABLED (Prompt(inp) /\ pc' = "decide" /\ delete' \notin {"Y", "N"})
            /\ ENABLED (Prompt("q") /\ pc' = "prompt")
            /\ ~ENABLED (Prompt("q") /\ pc' # "prompt"))
    /\ [](pc = "decide" => delete \in {"Y", "N"})

\* C11 witness: the duplicate of the first pair was removed on a Y, its
\* original is still there, and the second pair has just been answered
\* with something that is neither Y nor N.
C11_Witness ==
    /\ pc = "prompt" /\ i = 2 /\ delete = "Q"
    /\ pairState[1] = "Deleted"
    /\ \E p \in {duplicates[1][1], duplicates[1][2]} : fs[p].kind = "file"
    /\ \E p \in {duplicates[1][1], duplicates[1][2]} : fs[p].kind = "missing"
\* C12: an interruption is possible at every prompt; the step that prints
\* the cancellation message ends the process with status 0 and changes
\* neither storage nor any pair's state; once the process has exited nothing
\* changes any more, so the presented pair stays Presented, every later pair
\* stays Discovered and what was removed before stays removed.
C12_InterruptEndsRun ==
    /\ [](pc = "prompt" => ENABLED Interrupt)
    /\ [][(~Cancelled /\ Cancelled') =>
            /\ pc = "prompt"
            /\ pc' = "exited" /\ exitCode' = 0
            /\ UNCHANGED <<fs, pairState, attempts, i>>]_vars
    /\ [][pc # "exited"]_vars
    /\ [](Cancelled =>
            /\ pc = "exited" /\ exitCode = 0
            /\ pairState[i] = "Presented"
            /\ \A k \in 1..Len(pairState) :
                  /\ k > i => pairState[k] = "Discovered" /\ attempts[k] = 0
                  /\ k < i => pairState[k] \in Terminal)

\* C12 witness: the run was interrupted at the prompt of the first of two
\* pairs.
C12_Witness ==
    /\ Cancelled /\ pc = "exited"
    /\ Len(duplicates) = 2 /\ i = 1
    /\ pairState = <<"Presented", "Discovered">>
\* A path was handed to a worker: its fingerprint was asked for.
Fingerprinted == Len(task) > 0

\* C13: a run ends with status 1 exactly when no argument was given or the
\* argument is not a directory, and such a run has fingerprinted and removed
\* nothing; every other run ends with status 0, the run of a scan without
\* pairs included, which reports that no duplicates were found and never
\* prompts.
C13_ExitOneOnlyOnBadArgument ==
    pc = "exited" =>
        /\ exitCode \in {0, 1}
        /\ exitCode = 1 <=> argv \in {"none", "notdir"}
        /\ exitCode = 1 => ~Fingerprinted /\ fs = fs0
        /\ (argv = "dir" /\ Len(duplicates) = 0) =>
              /\ <<"No duplicate files found", None>> \in out
              /\ \A p \in Paths : <<"Original", p>> \notin out
\* The tasks that pass from state a to state b in the step.
Moved(a, b) == {p \in 1..Len(task) : task[p] = a /\ task'[p] = b}

\* The results collected so far that carry a digest.
CollectedDigests == {p \in 1..Len(task) : task[p] = "collected" /\ truthy(result[p][2])}

\* C14: the step in which a worker finishes leaves the index, the pair list
\* and every other task and result as they were; the index and the pair
\* list change only in a step of the collection loop, which takes exactly
\* one finished result; no step takes more than one result; an index entry
\* once written is never lost or changed and the pair list only grows at
\* its end; every collected digest is in the index or has made a pair.
C14_SingleCollector ==
    /\ [][\A p \in Moved("submitted", "done") :
            /\ UNCHANGED <<file_hashes, duplicates, pairState>>
            /\ \A q \in (1..Len(task)) \ {p} :
                  task'[q] = task[q] /\ result'[q] = result[q]]_vars
    /\ [][(file_hashes' # file_hashes \/ duplicates' # duplicates) =>
            /\ pc = "collect"
            /\ Cardinality(Moved("done", "collected")) = 1
            /\ Moved("submitted", "done") = {}
            /\ result' = result]_vars
    /\ [][/\ Cardinality(Moved("done", "collected")) <= 1
          /\ Moved("submitted", "collected") = {}
          /\ Cardinality(DOMAIN file_hashes') + Len(duplicates')
                <= Cardinality(DOMAIN file_hashes) + Len(duplicates) + 1]_vars
    /\ [][/\ \A h \in DOMAIN file_hashes :
                h \in DOMAIN file_hashes' /\ file_hashes'[h] = file_hashes[h]
          /\ Len(duplicates') >= Len(duplicates)
          /\ SubSeq(duplicates', 1, Len(duplicates)) = duplicates]_vars
    /\ [](Cardinality(CollectedDigests)
             = Cardinality(DOMAIN file_hashes) + Len(duplicates))

\* C14 witness: while the collection loop has applied one result to the
\* index, another worker has finished and a third is still running.
C14_Witness ==
    /\ pc = "collect"
    /\ Cardinality(DOMAIN file_hashes) = 1
    /\ \E p, q, r \in 1..Len(task) :
          task[p] = "collected" /\ task[q] = "done" /\ task[r] = "submitted"
\* The pairs in state st.
PairsIn(st) == {k \in 1..Len(pairState) : pairState[k] \in st}

\* C15: at most one pair is Presented; the pair after pair k has left
\* Discovered only if pair k is in a terminal state; while a pair is at the
\* prompt or being decided it is the Presented one, every pair discovered
\* before it is terminal and every pair discovered after it is untouched;
\* the pair a step presents is the first pair that is not terminal.
C15_OneAtATime ==
    /\ [](Cardinality(PairsIn({"Presented"})) <= 1)
    /\ [](\A k \in 1..Len(pairState) :
            (k > 1 /\ pairState[k] # "Discovered") => pairState[k - 1] \in Terminal)
    /\ [](Presenting =>
            /\ PairsIn({"Presented"}) = {i}
            /\ PairsIn(Terminal) = 1..(i - 1)
            /\ PairsIn({"Discovered"}) = (i + 1)..Len(pairState)
            /\ Len(pairState) = Len(duplicates))
    /\ [][\A k \in 1..Len(pairState) :
            (pairState[k] = "Discovered" /\ pairState'[k] # "Discovered") =>
               /\ pairState'[k] = "Presented"
               /\ PairsIn(Terminal) = 1..(k - 1)
               /\ PairsIn({"Presented"}) = {}]_vars

\* C15 witness: the second pair is at the prompt after the first was kept.
C15_Witness ==
    /\ pc = "prompt" /\ i = 2
    /\ pairState = <<"Kept", "Presented">>
\* The modification time line 106 used for path p of the presented pair.
TimeUsed(p) == IF p = Candidate THEN mtime_dup ELSE mtime_orig

\* Path m of the presented pair no longer exists, the pair's other path e
\* does, and e was modified strictly before the current time of the
\* presentation.
OnlyMissing(m, e) ==
    /\ {m, e} = {Candidate, FirstSeen} /\ m # e
    /\ fs[m].kind = "missing" /\ fs[e].kind = "file"
    /\ fs[e].mtime < last_now

\* C16: in a presented pair of which exactly one path no longer exists,
\* whether it vanished after the scan or was removed for an earlier pair,
\* and whose other path was modified strictly before the current time, the
\* failed read was reported and answered with the current time, the missing
\* path is the designated duplicate and the existing one the designated
\* original; a Y answer then ends the pair in DeletionFailed with storage
\* unchanged, so the existing file is not removed.
C16_MissingIsDuplicate ==
    /\ [](Presenting =>
            \A m, e \in Paths :
               OnlyMissing(m, e) =>
                  /\ duplicate_file = m /\ original_file = e
                  /\ TimeUsed(m) = last_now
                  /\ TimeUsed(e) = fs[e].mtime
                  /\ <<"Error getting modification time", m>> \in out)
    /\ [][(pc = "decide" /\ delete = "Y" /\ \E m, e \in Paths : OnlyMissing(m, e)) =>
            /\ pairState'[i] = "DeletionFailed"
            /\ fs' = fs
            /\ fs'[original_file].kind = "file"]_vars

\* C16 witness: the candidate of the first pair vanished after the scan,
\* the first-seen file is older than the current time, and the user has
\* answered Y.
C16_Witness ==
    /\ pc = "decide" /\ delete = "Y" /\ i = 1
    /\ OnlyMissing(Candidate, FirstSeen)
    /\ duplicate_file = Candidate
\* The diagnostics of the three handled errors that the step prints.
NewDiagnostics ==
    {d \in out' \ out : d[1] \in {"Error reading file",
                                  "Error getting modification time",
                                  "Error deleting file"}}

\* The tasks whose worker has returned.
Finished == {p \in 1..Len(task) : task[p] \in {"done", "collected"}}

\* C17: a finished task for a file that could not be read has printed a
\* diagnostic for its path, and a finished task without digest is either
\* that or a path that was no regular file; a path of the presented pair
\* whose modification time could not be read has a diagnostic and a time
\* all the same; a pair in DeletionFailed has a diagnostic for one of its
\* paths; the step that prints any of these diagnostics leaves the process
\* running, or ends it with status 0 as the decision on the last pair; and
\* a run that ends with status 0 without being cancelled has collected
\* every task and decided every pair.
C17_ErrorsReportedAndContained ==
    /\ [](\A p \in Finished :
            /\ fs0[file_list[p]].kind = "unreadable" =>
                  <<"Error reading file", file_list[p]>> \in out
            /\ ~truthy(result[p][2]) =>
                  \/ fs0[file_list[p]].kind \in {"dir", "missing"}
                  \/ <<"Error reading file", file_list[p]>> \in out
            /\ fs0[file_list[p]].kind = "file" => truthy(result[p][2]))
    /\ [](Presenting =>
            \A p \in {Candidate, FirstSeen} :
               fs[p].kind = "missing" =>
                  /\ <<"Error getting modification time", p>> \in out
                  /\ TimeUsed(p) \in Times)
    /\ [](\A k \in 1..Len(pairState) :
            pairState[k] = "DeletionFailed" =>
               \E p \in {duplicates[k][1], duplicates[k][2]} :
                  <<"Error deleting file", p>> \in out)
    /\ [][NewDiagnostics # {} =>
            /\ exitCode' \in {Running, 0}
            /\ pc' = "exited" => (pc = "decide" /\ i = Len(duplicates))
            /\ pc \in {"submit", "collect"} => pc' = pc
            /\ pc = "present" => pc' = "prompt"
            /\ (pc = "decide" /\ i < Len(duplicates)) => (pc' = "present" /\ i' = i + 1)]_vars
    /\ [](pc = "exited" /\ exitCode = 0 /\ argv = "dir" /\ ~Cancelled =>
            /\ Finished = 1..Len(file_list)
            /\ \A k \in 1..Len(pairState) : pairState[k] \in Terminal)

\* C17 witness: a run that met all three errors, a file that could not be
\* read, a modification time that could not be read and a removal that
\* failed, has ended with status 0.
C17_Witness ==
    /\ pc = "exited" /\ exitCode = 0 /\ ~Cancelled
    /\ \E p \in Paths : <<"Error reading file", p>> \in out
    /\ \E p \in Paths : <<"Error getting modification time", p>> \in out
    /\ \E k \in 1..Len(pairState) : pairState[k] = "DeletionFailed"
\* The regular, readable files of content c when the run started.
FilesWith0(c) == {p \in DOMAIN fs0 : fs0[p].kind = "file" /\ fs0[p].content = c}

\* C18: the paths handed to the workers are distinct, no file changes its
\* content, and of every content that some file had when the run started
\* some file still has it, at the end of the run and at every moment before.
C18_OneCopySurvives ==
    /\ \A p, q \in 1..Len(file_list) : file_list[p] = file_list[q] => p = q
    /\ \A c \in Contents :
          /\ FilesWith(c) \subseteq FilesWith0(c)
          /\ FilesWith0(c) # {} => FilesWith(c) # {}

\* C18 witness: the run over three files of one content has ended after
\* two removals; one file is left.
C18_Witness ==
    /\ pc = "exited"
    /\ \E c \in Contents :
          Cardinality(FilesWith0(c)) = 3 /\ Cardinality(FilesWith(c)) = 1
\* The files that had the content of file p when the run started.
GroupOf(p) == FilesWith0(fs0[p].content)

\* File p was modified strictly before every other file of its group.
StrictlyEarliest(p) ==
    /\ fs0[p].kind = "file"
    /\ \A q \in GroupOf(p) \ {p} : fs0[p].mtime < fs0[q].mtime

\* No file of the group of p was modified later than the current time.
NotLaterThanNow(p) == \A q \in GroupOf(p) : fs0[q].mtime <= last_now

AllAnsweredY ==
    /\ pc = "exited" /\ exitCode = 0 /\ argv = "dir" /\ ~Cancelled
    /\ \A k \in 1..Len(pairState) : pairState[k] \in {"Deleted", "DeletionFailed"}

\* No os.remove of an existing path was refused.
NoExternalFailure == \A p \in Paths : <<"Read-only file system", p>> \notin out

\* C20: when the run has ended after a Y answer to every pair, and no
\* removal of an existing file was refused, exactly one file is left of
\* every content that some file had when the run started.
C20_ExactlyOneRemains ==
    (AllAnsweredY /\ NoExternalFailure) =>
        \A c \in Contents :
           FilesWith0(c) # {} => Cardinality(FilesWith(c)) = 1
====
